---- MODULE Spec2Model ----
(***************************************************************************)
(* State-machine model of the TrafficGenerator React frontend:             *)
(*   - EnhancedContentDetails (detail page): fetchContent,                 *)
(*     handleRefreshContent, route-id changes;                             *)
(*   - Dashboard: fetchData, the delete dialog, handleDelete;              *)
(*   - ExportModal: handleExport, the two copy actions and their timers;   *)
(*   - AddContent: the form, handleSubmit, the delayed navigation;         *)
(*   - the Section Renderers as pure functions of their props.             *)
(* A network request is in flight from the step that issues it to the      *)
(* step that delivers its response; the promise reactions that a response  *)
(* triggers (Promise.all, then/catch/finally, the continuation of an       *)
(* awaiting caller) run to completion in the step that delivers it, and    *)
(* the state updates of one such run are committed together.               *)
(* One behaviour is one page visit: Init picks the page the router mounts. *)
(***************************************************************************)
EXTENDS Integers, Sequences, FiniteSets, TLC

\* ------------------------------------------------------------- bounds
\* fetchContent invocations per page visit
MaxLoads == 3
\* handleRefreshContent invocations per page visit
MaxRefreshes == 2
\* fetchData invocations per dashboard visit
MaxFetches == 3
\* handleDelete invocations per dashboard visit
MaxDeletes == 2
\* the largest score handed to a score-band mapping
MaxScore == 100
\* handleExport invocations per visit of the export dialog
MaxExports == 1
\* handleSubmit invocations that pass validation, per visit of Add-Content
MaxPosts == 2
\* time passes in ticks of 500 ms
\* setTimeout(() => setCopied(null), 2000)
CopiedDelay == 4
\* setTimeout(() => navigate(...), 1500)
NavigateDelay == 3

\* ------------------------------------------------------------- values
\* route ids / content ids
IDs == {"a", "b"}
\* null / undefined, and a present value
Null == <<>>
Some(x) == <<x>>

VARIABLES
    page,        \* which page component is mounted
    routeId,     \* useParams().id of the detail page
    content,     \* useState(null)
    queries,     \* useState([])
    loading,     \* useState(true)
    refreshing,  \* useState(false)
    loads,       \* the fetchContent invocations and their two requests
    refreshes,   \* the handleRefreshContent invocations and their POST
    toasts,      \* the notifications shown so far
    analytics,         \* Dashboard: useState(null)
    contents,          \* Dashboard: useState([])
    dashLoading,       \* Dashboard: loading, useState(true)
    deleteDialogOpen,  \* Dashboard: useState(false)
    contentToDelete,   \* Dashboard: useState(null)
    fetches,           \* the fetchData invocations and their two requests
    deletes,           \* the DELETE requests issued by handleDelete
    store,             \* the backend's content ids
    trashClicked,      \* the card whose trash button was clicked last
    modalContentId,  \* ExportModal: the contentId prop
    exports,     \* ExportModal: the handleExport invocations
    objectURLs,  \* the object URLs that are live (created, not revoked)
    anchors,     \* the transient anchors attached to document.body
    downloads,   \* the downloads the browser was asked for
    copied,      \* ExportModal: useState(null)
    copyTimers,  \* the pending setTimeout(() => setCopied(null), 2000)
    sinceCopy,   \* time since the last click on each copy action
    inputType,     \* AddContent: useState('url')
    url,           \* AddContent: useState('')
    title,         \* AddContent: useState('')
    contentField,  \* AddContent: content, useState('')
    addLoading,    \* AddContent: loading, useState(false)
    posts,         \* the POST /content requests issued by handleSubmit
    navTimers,     \* the pending setTimeout(() => navigate(...), 1500)
    navigations,   \* the navigate() calls made
    props,             \* the props a Section Renderer was last called with
    view               \* what it returned: Null (nothing) or the rendered parts

detailVars == <<routeId, content, queries, loading, refreshing, loads, refreshes>>
dashVars == <<analytics, contents, dashLoading, deleteDialogOpen, contentToDelete,
              fetches, deletes, store, trashClicked>>
renderVars == <<props, view>>
exportVars == <<modalContentId, exports, objectURLs, anchors, downloads, copied, copyTimers,
                sinceCopy>>
addVars == <<inputType, url, title, contentField, addLoading, posts, navTimers,
             navigations>>
vars == <<page, detailVars, dashVars, toasts, renderVars, exportVars, addVars>>

\* ------------------------------------------------- detail page: fetchContent
\* One invocation of fetchContent: the id its closure read, its two requests,
\* whether its try/catch/finally has run, and the handleRefreshContent
\* invocation awaiting it.
NewLoad(id, ref) ==
    [id |-> id, c |-> "inflight", q |-> "inflight", done |-> FALSE, ref |-> ref]

\* mutant: the content request alone decides (a missing join)
PromiseAllFulfilledContentOnly(l) == l.c = "ok"

\* Promise.all([content, queries]) fulfils when both requests have succeeded
PromiseAllFulfilled(l) == l.c = "ok" /\ l.q = "ok"

\* ... and rejects as soon as one of them fails
PromiseAllRejected(l) == l.c = "err" \/ l.q = "err"

PendingRefreshes == {r \in 1..Len(refreshes) : refreshes[r].post = "inflight"}

\* room for one more fetchContent invocation (every pending refresh may need one)
LoadRoom == Len(loads) + Cardinality(PendingRefreshes) < MaxLoads

\* setLoading(true) and the two axios.get calls
fetchContent(id, ref) ==
    /\ loading' = TRUE
    /\ loads' = Append(loads, NewLoad(id, ref))

\* the continuation of `await fetchContent()` in handleRefreshContent:
\* nothing is thrown, so only `finally { setRefreshing(false) }` runs
RefreshFinally(r) ==
    /\ refreshing' = FALSE
    /\ refreshes' = [refreshes EXCEPT ![r].done = TRUE]

AwaitFetchContent(ref) ==
    IF ref = 0 THEN UNCHANGED <<refreshing, refreshes>> ELSE RefreshFinally(ref)

\* after the await: setContent, setQueries; finally setLoading(false).
\* nu is freshness.needs_update of contentRes.data, first read here
FetchContentThen(k, l, nu) ==
    /\ content' = Some([id |-> l.id, load |-> k, needs_update |-> nu])
    /\ queries' = Some([id |-> l.id, load |-> k])
    /\ loading' = FALSE
    /\ UNCHANGED toasts

\* catch: toast.error; finally setLoading(false)
FetchContentCatch(k, l) ==
    /\ toasts' = toasts \cup {[msg |-> "Failed to load content", of |-> <<"load", k>>]}
    /\ loading' = FALSE
    /\ UNCHANGED <<content, queries>>

\* a response for load k has been recorded in l: run the promise reactions
PromiseReactions(k, l) ==
    IF ~l.done /\ PromiseAllFulfilled(l)
    THEN /\ loads' = [loads EXCEPT ![k] = [l EXCEPT !.done = TRUE]]
         /\ \E nu \in BOOLEAN : FetchContentThen(k, l, nu)
         /\ AwaitFetchContent(l.ref)
    ELSE IF ~l.done /\ PromiseAllRejected(l)
    THEN /\ loads' = [loads EXCEPT ![k] = [l EXCEPT !.done = TRUE]]
         /\ FetchContentCatch(k, l)
         /\ AwaitFetchContent(l.ref)
    ELSE /\ loads' = [loads EXCEPT ![k] = l]
         /\ UNCHANGED <<content, queries, loading, toasts, refreshing, refreshes>>

\* the response of GET /content/{id} of load k arrives
ContentResponse(k, ok) ==
    /\ page = "detail"
    /\ loads[k].c = "inflight"
    /\ PromiseReactions(k, [loads[k] EXCEPT !.c = IF ok THEN "ok" ELSE "err"])
    /\ UNCHANGED <<page, renderVars, exportVars, addVars, routeId, dashVars>>

\* the response of GET /queries/{id} of load k arrives
QueriesResponse(k, ok) ==
    /\ page = "detail"
    /\ loads[k].q = "inflight"
    /\ PromiseReactions(k, [loads[k] EXCEPT !.q = IF ok THEN "ok" ELSE "err"])
    /\ UNCHANGED <<page, renderVars, exportVars, addVars, routeId, dashVars>>

\* useEffect(() => fetchContent(), [id]) after the route id has changed
RouteChange(id) ==
    /\ page = "detail"
    /\ id # routeId
    /\ LoadRoom
    /\ routeId' = id
    /\ fetchContent(id, 0)
    /\ UNCHANGED <<page, renderVars, exportVars, addVars, content, queries, refreshing, refreshes, toasts, dashVars>>

\* ----------------------------------------- detail page: handleRefreshContent
\* the page renders its content (neither the spinner nor 'Content not found')
ContentView == ~loading /\ content # Null

\* try { setRefreshing(true); axios.post(.../refresh) ...
handleRefreshContent(contentId) ==
    /\ Len(refreshes) < MaxRefreshes
    /\ LoadRoom
    /\ refreshing' = TRUE
    /\ refreshes' = Append(refreshes, [contentId |-> contentId, id |-> routeId,
                                       post |-> "inflight", done |-> FALSE])
    /\ UNCHANGED <<page, renderVars, exportVars, addVars, routeId, content, queries, loading, loads, toasts, dashVars>>

\* the header Refresh button, disabled={refreshing}
ClickHeaderRefresh ==
    /\ page = "detail"
    /\ ContentView
    /\ ~refreshing
    /\ handleRefreshContent(content[1].id)

\* ContentFreshness' 'Refresh Content' button, rendered when needs_update
ClickFreshnessRefresh ==
    /\ page = "detail"
    /\ ContentView
    /\ content[1].needs_update
    /\ handleRefreshContent(content[1].id)

\* mutant: the write is not followed by the dual fetch
RefreshPostThenNoFetch(r) ==
    /\ toasts' = toasts \cup {[msg |-> "Content refreshed successfully!", of |-> <<"refresh", r>>]}
    /\ refreshes' = [refreshes EXCEPT ![r].post = "ok", ![r].done = TRUE]
    /\ refreshing' = FALSE
    /\ UNCHANGED <<content, queries, loading, loads>>

\* the POST succeeded: toast.success; await fetchContent()
RefreshPostThen(r) ==
    /\ toasts' = toasts \cup {[msg |-> "Content refreshed successfully!", of |-> <<"refresh", r>>]}
    /\ refreshes' = [refreshes EXCEPT ![r].post = "ok"]
    /\ fetchContent(refreshes[r].id, r)
    /\ UNCHANGED <<content, queries, refreshing>>

\* mutant: the failure path without its `finally`
RefreshPostCatchNoFinally(r) ==
    /\ toasts' = toasts \cup {[msg |-> "Failed to refresh content", of |-> <<"refresh", r>>]}
    /\ refreshes' = [refreshes EXCEPT ![r].post = "err", ![r].done = TRUE]
    /\ UNCHANGED <<content, queries, loading, loads, refreshing>>

\* the POST failed: catch toast.error; finally setRefreshing(false)
RefreshPostCatch(r) ==
    /\ toasts' = toasts \cup {[msg |-> "Failed to refresh content", of |-> <<"refresh", r>>]}
    /\ refreshes' = [refreshes EXCEPT ![r].post = "err", ![r].done = TRUE]
    /\ refreshing' = FALSE
    /\ UNCHANGED <<content, queries, loading, loads>>

\* the response of POST /content/{contentId}/refresh of invocation r arrives
RefreshPostResponse(r, ok) ==
    /\ page = "detail"
    /\ refreshes[r].post = "inflight"
    /\ IF ok THEN RefreshPostThen(r) ELSE RefreshPostCatch(r)
    /\ UNCHANGED <<page, renderVars, exportVars, addVars, routeId, dashVars>>

\* ------------------------------------------------------ Dashboard: fetchData
\* One invocation of fetchData: its GET /analytics and GET /content requests
\* and whether its try/catch/finally has run.
NewFetch == [a |-> "inflight", c |-> "inflight", done |-> FALSE]

\* Promise.all([analytics, contents]) fulfils when both requests have succeeded
FetchDataFulfilled(f) == f.a = "ok" /\ f.c = "ok"

\* ... and rejects as soon as one of them fails
FetchDataRejected(f) == f.a = "err" \/ f.c = "err"

PendingDeletes == {d \in 1..Len(deletes) : deletes[d].status = "inflight"}

\* room for one more fetchData invocation (every pending DELETE may need one)
FetchRoom == Len(fetches) + Cardinality(PendingDeletes) < MaxFetches

\* backend, GET /content: the content list
BackendContentList == store

\* backend, DELETE /content/{id}: succeeds only for a stored id, and removes it
BackendCanDelete(id) == id \in store
BackendDelete(id) == store' = store \ {id}

\* setLoading(true) and the two axios.get calls
fetchData ==
    /\ dashLoading' = TRUE
    /\ fetches' = Append(fetches, NewFetch)

\* after the await: setAnalytics, setContents; finally setLoading(false)
FetchDataThen(k) ==
    /\ analytics' = Some([load |-> k])
    /\ contents' = Some([load |-> k, items |-> BackendContentList])
    /\ dashLoading' = FALSE
    /\ UNCHANGED toasts

\* catch: toast.error; finally setLoading(false)
FetchDataCatch(k) ==
    /\ toasts' = toasts \cup {[msg |-> "Failed to load data", of |-> <<"fetch", k>>]}
    /\ dashLoading' = FALSE
    /\ UNCHANGED <<analytics, contents>>

\* a response for fetch k has been recorded in f: run the promise reactions
FetchDataReactions(k, f) ==
    IF ~f.done /\ FetchDataFulfilled(f)
    THEN /\ fetches' = [fetches EXCEPT ![k] = [f EXCEPT !.done = TRUE]]
         /\ FetchDataThen(k)
    ELSE IF ~f.done /\ FetchDataRejected(f)
    THEN /\ fetches' = [fetches EXCEPT ![k] = [f EXCEPT !.done = TRUE]]
         /\ FetchDataCatch(k)
    ELSE /\ fetches' = [fetches EXCEPT ![k] = f]
         /\ UNCHANGED <<analytics, contents, dashLoading, toasts>>

\* the response of GET /analytics of fetch k arrives
AnalyticsResponse(k, ok) ==
    /\ page = "dashboard"
    /\ fetches[k].a = "inflight"
    /\ FetchDataReactions(k, [fetches[k] EXCEPT !.a = IF ok THEN "ok" ELSE "err"])
    /\ UNCHANGED <<page, renderVars, exportVars, addVars, detailVars, deleteDialogOpen, contentToDelete, deletes, store,
                   trashClicked>>

\* the response of GET /content of fetch k arrives
ContentsResponse(k, ok) ==
    /\ page = "dashboard"
    /\ fetches[k].c = "inflight"
    /\ FetchDataReactions(k, [fetches[k] EXCEPT !.c = IF ok THEN "ok" ELSE "err"])
    /\ UNCHANGED <<page, renderVars, exportVars, addVars, detailVars, deleteDialogOpen, contentToDelete, deletes, store,
                   trashClicked>>

\* ------------------------------------------- Dashboard: the delete dialog
\* the content list (and with it the dialog) is rendered only when not loading
ListView == ~dashLoading

\* the ids of the rendered content cards
Cards == IF contents = <<>> THEN {} ELSE contents[1].items

\* mutant: a selection that is already there is kept
openDeleteDialogKeepsSelection(contentId) ==
    /\ page = "dashboard"
    /\ ListView
    /\ ~deleteDialogOpen
    /\ contentId \in Cards
    /\ contentToDelete' = IF contentToDelete = Null THEN Some(contentId) ELSE contentToDelete
    /\ deleteDialogOpen' = TRUE
    /\ trashClicked' = Some(contentId)
    /\ UNCHANGED <<page, renderVars, exportVars, addVars, detailVars, toasts, analytics,
                   contents, dashLoading, fetches, deletes, store>>

\* the trash button of a card; the open dialog is modal
openDeleteDialog(contentId) ==
    /\ page = "dashboard"
    /\ ListView
    /\ ~deleteDialogOpen
    /\ contentId \in Cards
    /\ contentToDelete' = Some(contentId)
    /\ deleteDialogOpen' = TRUE
    /\ trashClicked' = Some(contentId)
    /\ UNCHANGED <<page, renderVars, exportVars, addVars, detailVars, toasts, analytics, contents, dashLoading,
                   fetches, deletes, store>>

\* AlertDialogCancel and AlertDialogAction close the dialog on click:
\* onOpenChange(false), which is setDeleteDialogOpen
AlertDialogClose == deleteDialogOpen' = FALSE

\* AlertDialogCancel
CancelDelete ==
    /\ page = "dashboard"
    /\ ListView
    /\ deleteDialogOpen
    /\ AlertDialogClose
    /\ UNCHANGED <<page, renderVars, exportVars, addVars, detailVars, toasts, analytics, contents, dashLoading,
                   contentToDelete, fetches, deletes, store, trashClicked>>

\* AlertDialogAction onClick={handleDelete}: `if (!contentToDelete) return;`
\* then axios.delete is issued; the dialog primitive closes on the click
handleDelete ==
    /\ page = "dashboard"
    /\ ListView
    /\ deleteDialogOpen
    /\ Len(deletes) < MaxDeletes
    /\ FetchRoom
    /\ AlertDialogClose
    /\ deletes' = IF contentToDelete = Null THEN deletes
                  ELSE Append(deletes, [id |-> contentToDelete[1], status |-> "inflight"])
    /\ UNCHANGED <<page, renderVars, exportVars, addVars, detailVars, toasts, analytics, contents, dashLoading,
                   contentToDelete, fetches, store, trashClicked>>

\* mutant: the deleted card is removed locally, ahead of the re-fetch
DeleteThenOptimistic(d) ==
    /\ BackendDelete(deletes[d].id)
    /\ deletes' = [deletes EXCEPT ![d].status = "ok"]
    /\ toasts' = toasts \cup {[msg |-> "Content deleted successfully", of |-> <<"delete", d>>]}
    /\ deleteDialogOpen' = FALSE
    /\ contentToDelete' = Null
    /\ fetchData
    /\ contents' = IF contents = <<>> THEN contents
                   ELSE Some([contents[1] EXCEPT !.items = @ \ {deletes[d].id}])
    /\ UNCHANGED <<analytics, trashClicked>>

\* the DELETE succeeded: toast.success, close and clear, fetchData()
DeleteThen(d) ==
    /\ BackendDelete(deletes[d].id)
    /\ deletes' = [deletes EXCEPT ![d].status = "ok"]
    /\ toasts' = toasts \cup {[msg |-> "Content deleted successfully", of |-> <<"delete", d>>]}
    /\ deleteDialogOpen' = FALSE
    /\ contentToDelete' = Null
    /\ fetchData
    /\ UNCHANGED <<analytics, contents, trashClicked>>

\* mutant: the failure path re-fetches as well
DeleteCatchRefetch(d) ==
    /\ deletes' = [deletes EXCEPT ![d].status = "err"]
    /\ toasts' = toasts \cup {[msg |-> "Failed to delete content", of |-> <<"delete", d>>]}
    /\ fetchData
    /\ UNCHANGED <<store, deleteDialogOpen, contentToDelete, analytics, contents,
                   trashClicked>>

\* the DELETE failed: catch toast.error
DeleteCatch(d) ==
    /\ deletes' = [deletes EXCEPT ![d].status = "err"]
    /\ toasts' = toasts \cup {[msg |-> "Failed to delete content", of |-> <<"delete", d>>]}
    /\ UNCHANGED <<store, deleteDialogOpen, contentToDelete, dashLoading, fetches,
                   analytics, contents, trashClicked>>

\* the response of DELETE /content/{id} of request d arrives
DeleteResponse(d, ok) ==
    /\ page = "dashboard"
    /\ deletes[d].status = "inflight"
    /\ ok => BackendCanDelete(deletes[d].id)
    /\ IF ok THEN DeleteThen(d) ELSE DeleteCatch(d)
    /\ UNCHANGED <<page, renderVars, exportVars, addVars, detailVars>>


\* ------------------------------------------------ ExportModal: handleExport
Formats == {"json", "csv", "html"}

\* `${API}/content/${contentId}/export/${format}`
ExportUrl(id, format) == <<"content", id, "export", format>>

\* `content_${contentId}.${format}`
DownloadName(id, format) == <<"content_", id, ".", format>>

\* `Exported as ${format.toUpperCase()}`
ExportedAs(format) ==
    CASE format = "json" -> "Exported as JSON"
      [] format = "csv" -> "Exported as CSV"
      [] format = "html" -> "Exported as HTML"

\* How the exchange started by fetch() can end once the body has been read:
\* the backend delivered the export (2xx), the backend answered with an error
\* status (fetch resolves all the same and blob() yields the error body), or
\* the transport failed (fetch or blob() rejects).
Outcomes == {"ok", "http_error", "network_error"}

\* the browser state that handleExport touches
Dom == [urls |-> objectURLs, anchors |-> anchors, downloads |-> downloads]

\* one DOM call of handleExport, made for export e
DomStep(d, op, e, name) ==
    CASE op = "createObjectURL" -> [d EXCEPT !.urls = @ \cup {e}]
      [] op = "appendChild" -> [d EXCEPT !.anchors = @ \cup {e}]
      [] op = "click" ->
            [d EXCEPT !.downloads =
                Append(@, [name |-> name, export |-> e,
                           live |-> e \in d.urls, attached |-> e \in d.anchors])]
      [] op = "revokeObjectURL" -> [d EXCEPT !.urls = @ \ {e}]
      [] op = "removeChild" -> [d EXCEPT !.anchors = @ \ {e}]

RECURSIVE RunSteps(_, _, _, _)
RunSteps(d, steps, e, name) ==
    IF steps = <<>> THEN d
    ELSE RunSteps(DomStep(d, Head(steps), e, name), Tail(steps), e, name)

\* mutant: the object URL is revoked before the anchor is clicked
ExportStepsRevokeFirst ==
    <<"createObjectURL", "appendChild", "revokeObjectURL", "click", "removeChild">>

\* the DOM calls of handleExport, in program order
ExportSteps ==
    <<"createObjectURL", "appendChild", "click", "revokeObjectURL", "removeChild">>

\* a format button: fetch(...) is issued
handleExport(format) ==
    /\ page = "export"
    /\ Len(exports) < MaxExports
    /\ exports' = Append(exports, [format |-> format,
                                   request |-> ExportUrl(modalContentId, format),
                                   status |-> "inflight"])
    /\ UNCHANGED <<page, renderVars, detailVars, dashVars, addVars, toasts,
                   modalContentId, objectURLs, anchors, downloads, copied, copyTimers,
                   sinceCopy>>

\* after the two awaits: the download through a transient anchor, toast.success
ExportThen(e) ==
    LET d == RunSteps(Dom, ExportSteps, e,
                      DownloadName(modalContentId, exports[e].format))
    IN  /\ objectURLs' = d.urls
        /\ anchors' = d.anchors
        /\ downloads' = d.downloads
        /\ toasts' = toasts \cup {[msg |-> ExportedAs(exports[e].format),
                                   of |-> <<"export", e>>]}

\* catch: toast.error
ExportCatch(e) ==
    /\ toasts' = toasts \cup {[msg |-> "Failed to export", of |-> <<"export", e>>]}
    /\ UNCHANGED <<objectURLs, anchors, downloads>>

\* the exchange of export e ends
ExportResponse(e, outcome) ==
    /\ page = "export"
    /\ exports[e].status = "inflight"
    /\ exports' = [exports EXCEPT ![e].status = outcome]
    /\ IF outcome = "network_error" THEN ExportCatch(e) ELSE ExportThen(e)
    /\ UNCHANGED <<page, renderVars, detailVars, dashVars, addVars,
                   modalContentId, copied, copyTimers, sinceCopy>>

\* ------------------------------------------- ExportModal: the copy actions
CopyActions == {"link", "sitemap"}

\* setCopied(which), toast.success, setTimeout(..., 2000)
CopyClicked(which, msg) ==
    /\ copied' = Some(which)
    /\ toasts' = toasts \cup {[msg |-> msg, of |-> <<"copy", which>>]}
    /\ copyTimers' = copyTimers \cup {CopiedDelay}
    /\ sinceCopy' = [sinceCopy EXCEPT ![which] = Some(0)]
    /\ UNCHANGED <<page, renderVars, detailVars, dashVars, addVars,
                   modalContentId, exports, objectURLs, anchors, downloads>>

copyShareLink ==
    /\ page = "export"
    /\ CopyClicked("link", "Share link copied!")

copySitemapUrl ==
    /\ page = "export"
    /\ CopyClicked("sitemap", "Sitemap URL copied!")

\* a timer set by a copy action fires: setCopied(null)
CopyTimerFires ==
    /\ page = "export"
    /\ 0 \in copyTimers
    /\ copyTimers' = copyTimers \ {0}
    /\ copied' = Null
    /\ UNCHANGED <<page, renderVars, detailVars, dashVars, addVars, toasts,
                   modalContentId, exports, objectURLs, anchors, downloads, sinceCopy>>

\* the check mark of a copy button: copied === which
CopiedShown(which) == copied = Some(which)

\* ------------------------------------------------ AddContent: handleSubmit
InputTypes == {"url", "manual"}
\* what the user may have typed into each field
UrlTexts == {"", "u"}
TitleTexts == {"", "t"}
ContentTexts == {"", "c"}

\* the form is on screen until the router has navigated away
Mounted == navigations = <<>>

formVars == <<inputType, url, title, contentField>>

\* Tabs onValueChange={setInputType}
setInputType(v) ==
    /\ page = "add" /\ Mounted
    /\ v # inputType
    /\ inputType' = v
    /\ UNCHANGED <<page, renderVars, detailVars, dashVars, exportVars, toasts,
                   url, title, contentField, addLoading, posts, navTimers, navigations>>

\* the url input, rendered in the 'url' tab
setUrl(v) ==
    /\ page = "add" /\ Mounted
    /\ inputType = "url"
    /\ v # url
    /\ url' = v
    /\ UNCHANGED <<page, renderVars, detailVars, dashVars, exportVars, toasts,
                   inputType, title, contentField, addLoading, posts, navTimers,
                   navigations>>

\* the title input, rendered in the 'manual' tab
setTitle(v) ==
    /\ page = "add" /\ Mounted
    /\ inputType = "manual"
    /\ v # title
    /\ title' = v
    /\ UNCHANGED <<page, renderVars, detailVars, dashVars, exportVars, toasts,
                   inputType, url, contentField, addLoading, posts, navTimers,
                   navigations>>

\* the content textarea, rendered in the 'manual' tab
setContent(v) ==
    /\ page = "add" /\ Mounted
    /\ inputType = "manual"
    /\ v # contentField
    /\ contentField' = v
    /\ UNCHANGED <<page, renderVars, detailVars, dashVars, exportVars, toasts,
                   inputType, url, title, addLoading, posts, navTimers, navigations>>

\* mutant: every field is required, whatever the selected mode
ValidationErrorAllFields ==
    IF url = "" THEN Some("Please enter a URL")
    ELSE IF title = "" \/ contentField = "" THEN Some("Please fill in all fields")
    ELSE Null

\* the message of the validation that fails, Null when the form is valid
ValidationError ==
    IF inputType = "url" /\ url = "" THEN Some("Please enter a URL")
    ELSE IF inputType = "manual" /\ (title = "" \/ contentField = "")
    THEN Some("Please fill in all fields")
    ELSE Null

\* mutant: the payload carries every field of the form
PayloadAllFields ==
    [input_type |-> inputType, url |-> url, title |-> title, content |-> contentField]

\* { input_type: inputType, ...(inputType === 'url' ? { url } : { title, content }) }
Payload ==
    IF inputType = "url"
    THEN [input_type |-> inputType, url |-> url]
    ELSE [input_type |-> inputType, title |-> title, content |-> contentField]

\* the submit button is disabled={loading}
SubmitEnabled == Mounted /\ ~addLoading

\* the form is submitted: validation, then setLoading(true) and axios.post
handleSubmit ==
    /\ page = "add"
    /\ SubmitEnabled
    /\ IF ValidationError # Null
       THEN /\ toasts' = toasts \cup {[msg |-> ValidationError[1],
                                        of |-> <<"validation", inputType>>]}
            /\ UNCHANGED <<addLoading, posts>>
       ELSE /\ Len(posts) < MaxPosts
            /\ addLoading' = TRUE
            /\ posts' = Append(posts, [payload |-> Payload, status |-> "inflight",
                                       id |-> Null, age |-> Null, detail |-> Null])
            /\ UNCHANGED toasts
    /\ UNCHANGED <<page, renderVars, detailVars, dashVars, exportVars, formVars,
                   navTimers, navigations>>

\* backend, POST /content: the id of the record created for the i-th request
\* (every record gets an id of its own)
BackendCreatedId(i) == IF i % 2 = 1 THEN "a" ELSE "b"

\* what error.response?.data?.detail can be: undefined (no response, or a
\* response without detail), an empty text, a message
PostErrorDetails == {Null, Some(""), Some("Invalid URL")}

\* mutant: the backend's detail is ignored
FailureMessageGeneric(detail) == "Failed to add content"

\* error.response?.data?.detail || 'Failed to add content'
FailureMessage(detail) ==
    IF detail = Null \/ detail[1] = "" THEN "Failed to add content" ELSE detail[1]

\* mutant: the failure path schedules the navigation as well
PostCatchNavigates(i, detail) ==
    /\ posts' = [posts EXCEPT ![i].status = "err", ![i].id = Some("a"),
                             ![i].detail = detail]
    /\ toasts' = toasts \cup {[msg |-> FailureMessage(detail), of |-> <<"post", i>>]}
    /\ navTimers' = navTimers \cup {[post |-> i, due |-> NavigateDelay]}
    /\ addLoading' = FALSE

\* the POST succeeded with { id }: toast.success, setTimeout(navigate, 1500);
\* finally setLoading(false)
PostThen(i, id) ==
    /\ posts' = [posts EXCEPT ![i].status = "ok", ![i].id = Some(id), ![i].age = Some(0)]
    /\ toasts' = toasts \cup
           {[msg |-> "Content added successfully! Generating traffic strategies...",
             of |-> <<"post", i>>]}
    /\ navTimers' = navTimers \cup {[post |-> i, due |-> NavigateDelay]}
    /\ addLoading' = FALSE

\* the POST failed: toast.error; finally setLoading(false)
PostCatch(i, detail) ==
    /\ posts' = [posts EXCEPT ![i].status = "err", ![i].detail = detail]
    /\ toasts' = toasts \cup {[msg |-> FailureMessage(detail), of |-> <<"post", i>>]}
    /\ addLoading' = FALSE
    /\ UNCHANGED navTimers

\* the response of POST /content of submit i arrives
PostResponse(i, ok) ==
    /\ page = "add"
    /\ posts[i].status = "inflight"
    /\ IF ok THEN PostThen(i, BackendCreatedId(i))
       ELSE \E detail \in PostErrorDetails : PostCatch(i, detail)
    /\ UNCHANGED <<page, renderVars, detailVars, dashVars, exportVars, formVars,
                   navigations>>

\* a navigation timer fires: navigate(`/content/${response.data.id}`)
NavTimerFires(i) ==
    /\ page = "add"
    /\ [post |-> i, due |-> 0] \in navTimers
    /\ navTimers' = navTimers \ {[post |-> i, due |-> 0]}
    /\ navigations' = Append(navigations, [to |-> <<"content", posts[i].id[1]>>,
                                           post |-> i])
    /\ UNCHANGED <<page, renderVars, detailVars, dashVars, exportVars, toasts, formVars,
                   addLoading, posts>>

\* ------------------------------------------------------------------- time
\* the age of an event one tick later, counted up to the delay of interest
Aged(x, cap) == IF x = Null THEN Null
                ELSE IF x[1] < cap THEN Some(x[1] + 1) ELSE x

\* a timer that is due fires before more time passes
TimerDue == 0 \in copyTimers \/ \E t \in navTimers : t.due = 0

\* 500 ms pass
Tick ==
    /\ page \in {"export", "add"}
    /\ ~TimerDue
    /\ copyTimers' = {t - 1 : t \in copyTimers}
    /\ sinceCopy' = [a \in CopyActions |-> Aged(sinceCopy[a], CopiedDelay)]
    /\ navTimers' = {[t EXCEPT !.due = @ - 1] : t \in navTimers}
    /\ posts' = [i \in 1..Len(posts) |-> [posts[i] EXCEPT !.age = Aged(@, NavigateDelay)]]
    /\ UNCHANGED <<page, renderVars, detailVars, dashVars, toasts, formVars,
                   modalContentId, exports, objectURLs, anchors, downloads, copied,
                   addLoading, navigations>>

\* ------------------------------------------------------- Section Renderers
\* JS truthiness of an optional number / of a list
Truthy(v) == v # Null /\ v # Some(0)
NonEmpty(list) == list # Null /\ Len(list[1]) > 0

\* mutant: the 'Medium' case is missing
getTierColorNoMedium(tier) ==
    IF tier = Some("High") THEN "text-green-600 bg-green-100"
    ELSE "text-blue-600 bg-blue-100"

\* TrafficInsights.getTierColor: switch (tier) with strict equality
getTierColor(tier) ==
    IF tier = Some("High") THEN "text-green-600 bg-green-100"
    ELSE IF tier = Some("Medium") THEN "text-orange-600 bg-orange-100"
    ELSE "text-blue-600 bg-blue-100"

\* TrafficInsights: `if (!trafficPrediction) return null;` guards every section
TrafficInsights(trafficPrediction, keywordGap, serp) ==
    IF trafficPrediction = Null THEN Null
    ELSE Some([sections |->
                   {"traffic_prediction"}
                   \cup (IF keywordGap # Null THEN {"keyword_gap"} ELSE {})
                   \cup (IF serp # Null THEN {"serp_optimization"} ELSE {})
                   \cup (IF NonEmpty(trafficPrediction[1].recommendations)
                         THEN {"recommendations"} ELSE {}),
               tierColor |-> getTierColor(trafficPrediction[1].traffic_tier)])

\* mutant: exclusive lower bounds
seoGetScoreColorExclusive(score) ==
    IF score > 85 THEN "text-green-600"
    ELSE IF score > 70 THEN "text-blue-600"
    ELSE IF score > 50 THEN "text-orange-600"
    ELSE "text-red-600"

\* SEOScoreCard.getScoreColor
seoGetScoreColor(score) ==
    IF score >= 85 THEN "text-green-600"
    ELSE IF score >= 70 THEN "text-blue-600"
    ELSE IF score >= 50 THEN "text-orange-600"
    ELSE "text-red-600"

\* SEOScoreCard: the progress bar's inline ternary
seoBarColor(score) ==
    IF score >= 85 THEN "bg-green-600"
    ELSE IF score >= 70 THEN "bg-blue-600"
    ELSE IF score >= 50 THEN "bg-orange-600"
    ELSE "bg-red-600"

\* SEOScoreCard.getGradeColor: grade.startsWith(...); a grade is its characters
getGradeColor(grade) ==
    IF Len(grade) > 0 /\ grade[1] = "A" THEN "text-green-600 bg-green-100"
    ELSE IF Len(grade) > 0 /\ grade[1] = "B" THEN "text-blue-600 bg-blue-100"
    ELSE IF Len(grade) > 0 /\ grade[1] = "C" THEN "text-orange-600 bg-orange-100"
    ELSE "text-red-600 bg-red-100"

SEOScoreCard(seoScore) ==
    IF seoScore = Null THEN Null
    ELSE Some([sections |->
                   {"seo_score"}
                   \cup (IF NonEmpty(seoScore[1].recommendations)
                         THEN {"recommendations"} ELSE {}),
               gradeColor |-> getGradeColor(seoScore[1].grade),
               scoreColor |-> seoGetScoreColor(seoScore[1].overall_score),
               barColor |-> seoBarColor(seoScore[1].overall_score)])

\* ContentFreshness.getStatusColor
getStatusColor(status) ==
    IF status \in {"Very Fresh", "Fresh"} THEN "text-green-600 bg-green-100"
    ELSE IF status = "Recent" THEN "text-blue-600 bg-blue-100"
    ELSE IF status = "Moderate" THEN "text-orange-600 bg-orange-100"
    ELSE IF status \in {"Aging", "Outdated"} THEN "text-red-600 bg-red-100"
    ELSE "text-gray-600 bg-gray-100"

\* ContentFreshness.getScoreColor
freshnessGetScoreColor(score) ==
    IF score >= 90 THEN "from-green-500 to-green-600"
    ELSE IF score >= 75 THEN "from-blue-500 to-blue-600"
    ELSE IF score >= 60 THEN "from-orange-500 to-orange-600"
    ELSE "from-red-500 to-red-600"

ContentFreshness(freshness) ==
    IF freshness = Null THEN Null
    ELSE Some([sections |->
                   {"freshness"}
                   \cup (IF freshness[1].needs_update THEN {"refresh_button"} ELSE {}),
               statusColor |-> getStatusColor(freshness[1].status),
               gradient |-> freshnessGetScoreColor(freshness[1].freshness_score)])

\* TopicClusters: `if (!topicClusters || !topicClusters.pillar_topic) return null;`
TopicClusters(topicClusters) ==
    IF topicClusters = Null \/ topicClusters[1].pillar_topic = "" THEN Null
    ELSE Some([sections |->
                   {"topic_clusters"}
                   \cup (IF NonEmpty(topicClusters[1].pillar_keywords)
                         THEN {"pillar_keywords"} ELSE {})
                   \cup (IF NonEmpty(topicClusters[1].cluster_topics)
                         THEN {"cluster_topics"} ELSE {})])

\* MetaPreview: `if (!metaPreview) return null;`
MetaPreview(metaPreview) ==
    IF metaPreview = Null THEN Null
    ELSE Some([sections |-> {"meta_preview"}])

\* ExportModal: <Dialog open={isOpen}>; contentId is not looked at
ExportModal(isOpen, contentId) ==
    IF isOpen THEN Some([sections |-> {"export_formats", "public_sharing"}])
    ELSE Null

Sections(v) == IF v = Null THEN {} ELSE v[1].sections

\* EnhancedContentDetails, Overview and Traffic tabs: which analysis sections of
\* a loaded record c are rendered
DetailTabs(c) ==
    (IF c.seo_score # Null THEN Sections(SEOScoreCard(c.seo_score)) ELSE {})
    \cup (IF c.freshness # Null THEN Sections(ContentFreshness(c.freshness)) ELSE {})
    \cup (IF c.meta_preview # Null THEN Sections(MetaPreview(c.meta_preview)) ELSE {})
    \cup Sections(TrafficInsights(c.traffic_prediction, c.keyword_gap, c.serp_optimization))
    \cup (IF c.topic_clusters # Null THEN Sections(TopicClusters(c.topic_clusters)) ELSE {})

\* ---------------------------------------------------- numeric leaf display
\* Number.prototype.toFixed(0) / toFixed(1) of a whole number
toFixed0(n) == ToString(n)
toFixed1(n) == ToString(n) \o ".0"

\* Number.prototype.toLocaleString(): thousands separators
Pad3(n) == IF n < 10 THEN "00" \o ToString(n)
           ELSE IF n < 100 THEN "0" \o ToString(n) ELSE ToString(n)
toLocaleString(n) ==
    IF n < 1000 THEN ToString(n)
    ELSE ToString(n \div 1000) \o "," \o Pad3(n % 1000)

\* {x || 0}
OrZero(v) == IF Truthy(v) THEN ToString(v[1]) ELSE "0"
\* {x?.toFixed(0) || 0}: the string toFixed returns is never empty
Fixed0OrZero(v) == IF v = Null THEN "0" ELSE toFixed0(v[1])
\* {x?.toFixed(1) || 0}
Fixed1OrZero(v) == IF v = Null THEN "0" ELSE toFixed1(v[1])
\* {x?.toLocaleString() || 0}
LocaleOrZero(v) == IF v = Null THEN "0" ELSE toLocaleString(v[1])
\* {x}: React renders undefined as no text
Raw(v) == IF v = Null THEN "" ELSE ToString(v[1])
\* `${x}` inside a template literal
Interpolate(v) == IF v = Null THEN "undefined" ELSE ToString(v[1])

TrafficLeaves == {"low", "mid", "high", "keyword_count", "quality_score",
                  "readability_score", "content_length", "coverage_score",
                  "covered", "missing", "total_expected", "list_snippet.count"}

\* TrafficInsights: the text shown for a numeric leaf
TrafficLeafText(leaf, v) ==
    IF leaf \in {"low", "mid", "high"} THEN LocaleOrZero(v)
    ELSE IF leaf = "quality_score" THEN Fixed1OrZero(v)
    ELSE IF leaf = "readability_score" THEN Fixed0OrZero(v)
    ELSE IF leaf = "coverage_score" THEN Fixed0OrZero(v) \o "%"
    ELSE OrZero(v)

SeoLeaves == {"overall_score", "breakdown.title", "breakdown.description",
              "breakdown.keywords", "breakdown.content_quality", "breakdown.technical"}

\* SEOScoreCard: {overall_score}; `breakdown?.[key] || 0` shown as {score}
SeoLeafText(leaf, v) ==
    IF leaf = "overall_score" THEN Raw(v) ELSE OrZero(v)

FreshnessLeaves == {"freshness_score", "days_old"}

\* ContentFreshness: {freshness_score}; the Content Age line
FreshnessLeafText(leaf, v) ==
    IF leaf = "freshness_score" THEN Raw(v)
    ELSE IF v = Some(0) THEN "Created today"
    ELSE Interpolate(v) \o " day" \o (IF v # Null /\ v[1] > 1 THEN "s" ELSE "") \o " old"

MetaLeaves == {"title_length", "description_length"}

\* MetaPreview: {character_counts?.title_length} / {...description_length}
MetaLeafText(leaf, v) == Raw(v)

DashboardLeaves == {"total_content", "total_queries", "avg_performance_score",
                    "avg_readability_score"}

\* Dashboard: the four summary tiles
DashboardLeafText(leaf, v) ==
    IF leaf = "avg_performance_score" THEN OrZero(v) \o "%"
    ELSE IF leaf = "avg_readability_score" THEN Fixed0OrZero(v)
    ELSE OrZero(v)

Leaves == TrafficLeaves \cup SeoLeaves \cup FreshnessLeaves \cup MetaLeaves
          \cup DashboardLeaves

LeafText(leaf, v) ==
    IF leaf \in TrafficLeaves THEN TrafficLeafText(leaf, v)
    ELSE IF leaf \in SeoLeaves THEN SeoLeafText(leaf, v)
    ELSE IF leaf \in FreshnessLeaves THEN FreshnessLeafText(leaf, v)
    ELSE IF leaf \in MetaLeaves THEN MetaLeafText(leaf, v)
    ELSE DashboardLeafText(leaf, v)

\* ------------------------------------------------ renderer inputs and calls
Scores == 0..MaxScore
Tiers == {Null, Some("High"), Some("Medium"), Some("Low"), Some("high"), Some("")}
Lists == {Null, Some(<<>>), Some(<<"x">>)}
Grades == {<<"A", "+">>, <<"A">>, <<"B">>, <<"C", "-">>, <<"D">>, <<"F">>}
Statuses == {"Very Fresh", "Fresh", "Recent", "Moderate", "Aging", "Outdated", "Unknown"}
NumVals == {Null, Some(0), Some(1), Some(7), Some(1500)}

TrafficPredictions ==
    {Null} \cup {Some([traffic_tier |-> t, recommendations |-> r]) : t \in Tiers, r \in Lists}
KeywordGaps == {Null} \cup {Some([missing_keywords |-> r]) : r \in Lists}
Serps == {Null, Some([featured_snippet |-> Some([optimized |-> TRUE])])}
SeoScores ==
    {Null} \cup {Some([overall_score |-> s, grade |-> g, recommendations |-> r]) :
                 s \in Scores, g \in Grades, r \in {Some(<<>>), Some(<<"x">>)}}
Freshnesses ==
    {Null} \cup {Some([freshness_score |-> s, status |-> st, needs_update |-> nu]) :
                 s \in Scores, st \in Statuses, nu \in BOOLEAN}
TopicClusterses ==
    {Null} \cup {Some([pillar_topic |-> t, pillar_keywords |-> k, cluster_topics |-> c]) :
                 t \in {"", "seo"}, k \in Lists, c \in Lists}
MetaPreviews == {Null, Some([character_counts |-> Null]),
                 Some([character_counts |-> Some([title_length |-> 60])])}

\* one sample slice per analysis, for the page-level composition
Sample ==
    [seo_score |-> Some([overall_score |-> 72, grade |-> <<"B">>, recommendations |-> Some(<<>>)]),
     freshness |-> Some([freshness_score |-> 95, status |-> "Fresh", needs_update |-> FALSE]),
     meta_preview |-> Some([character_counts |-> Null]),
     traffic_prediction |-> Some([traffic_tier |-> Some("Medium"), recommendations |-> Some(<<>>)]),
     keyword_gap |-> Some([missing_keywords |-> Some(<<"x">>)]),
     serp_optimization |-> Some([featured_snippet |-> Some([optimized |-> TRUE])]),
     topic_clusters |-> Some([pillar_topic |-> "seo", pillar_keywords |-> Some(<<"x">>),
                              cluster_topics |-> Some(<<>>)])]
Analyses == DOMAIN Sample
Records == {[a \in Analyses |-> IF a \in P THEN Sample[a] ELSE Null] : P \in SUBSET Analyses}

\* one call of a renderer: its props and what it returned
Rendered(name, p, v) ==
    /\ props' = Some([renderer |-> name, p |-> p])
    /\ view' = v
    /\ UNCHANGED <<page, detailVars, dashVars, toasts, exportVars, addVars>>

RenderTrafficInsights ==
    /\ page = "none" /\ props = Null
    /\ \E tp \in TrafficPredictions, kg \in KeywordGaps, sp \in Serps :
           Rendered("TrafficInsights",
                    [trafficPrediction |-> tp, keywordGap |-> kg, serp |-> sp],
                    TrafficInsights(tp, kg, sp))

RenderSEOScoreCard ==
    /\ page = "none" /\ props = Null
    /\ \E x \in SeoScores : Rendered("SEOScoreCard", [seoScore |-> x], SEOScoreCard(x))

RenderContentFreshness ==
    /\ page = "none" /\ props = Null
    /\ \E x \in Freshnesses : Rendered("ContentFreshness", [freshness |-> x], ContentFreshness(x))

RenderTopicClusters ==
    /\ page = "none" /\ props = Null
    /\ \E x \in TopicClusterses : Rendered("TopicClusters", [topicClusters |-> x], TopicClusters(x))

RenderMetaPreview ==
    /\ page = "none" /\ props = Null
    /\ \E x \in MetaPreviews : Rendered("MetaPreview", [metaPreview |-> x], MetaPreview(x))

RenderExportModal ==
    /\ page = "none" /\ props = Null
    /\ \E o \in BOOLEAN, x \in {Null} \cup {Some(i) : i \in IDs} :
           Rendered("ExportModal", [isOpen |-> o, contentId |-> x], ExportModal(o, x))

RenderDetailTabs ==
    /\ page = "none" /\ props = Null
    /\ \E c \in Records : Rendered("DetailTabs", [content |-> c], Some([sections |-> DetailTabs(c)]))

DisplayLeaf ==
    /\ page = "none" /\ props = Null
    /\ \E leaf \in Leaves, v \in NumVals :
           Rendered("Leaf", [leaf |-> leaf, value |-> v], Some([text |-> LeafText(leaf, v)]))

\* ------------------------------------------------------------------ routes
\* a location path, split at '/'
Paths == {<<>>, <<"add">>} \cup {<<"content", x>> : x \in IDs}
                           \cup {<<"share", x>> : x \in IDs}

\* <Routes>: the element of the matching route and the params of the match
MatchRoute(path) ==
    IF path = <<>> THEN [element |-> "Dashboard", params |-> [id |-> Null, shareId |-> Null]]
    ELSE IF path = <<"add">>
    THEN [element |-> "AddContent", params |-> [id |-> Null, shareId |-> Null]]
    ELSE IF path[1] = "content"
    THEN [element |-> "EnhancedContentDetails",
          params |-> [id |-> Some(path[2]), shareId |-> Null]]
    ELSE [element |-> "EnhancedContentDetails",
          params |-> [id |-> Null, shareId |-> Some(path[2])]]

\* `${id}` in a template literal
TemplateText(v) == IF v = Null THEN "undefined" ELSE v[1]

\* the requests the element's mount effect issues:
\* EnhancedContentDetails reads `const { id } = useParams()`
MountRequests(match) ==
    IF match.element = "EnhancedContentDetails"
    THEN {<<"content", TemplateText(match.params.id)>>,
          <<"queries", TemplateText(match.params.id)>>}
    ELSE IF match.element = "Dashboard" THEN {<<"analytics">>, <<"content">>}
    ELSE {}

\* the router mounts the element for a location
MountRoute ==
    /\ page = "none" /\ props = Null
    /\ \E path \in Paths :
           Rendered("Route", [path |-> path],
                    Some([element |-> MatchRoute(path).element,
                          requests |-> MountRequests(MatchRoute(path))]))

\* ------------------------------------------------------ the share actions
\* a loaded record as far as the share actions read it
ShareRecords == [id : IDs, share_id : {Null, Some("a"), Some("s")}]

\* navigator.clipboard.writeText(text): the promise is not awaited; what the
\* clipboard holds afterwards
writeText(text, granted) == IF granted THEN Some(text) ELSE Null

\* EnhancedContentDetails.copyShareLink (the header Share button)
PageCopyShareLink(c, granted) ==
    IF c.share_id # Null /\ c.share_id # Some("")
    THEN [clipboard |-> writeText(<<"share", c.share_id[1]>>, granted),
          toast |-> Some("Share link copied to clipboard!")]
    ELSE [clipboard |-> Null, toast |-> Null]

\* ExportModal.copyShareLink, the modal being given contentId={content.id}
ModalCopyShareLink(c, granted) ==
    [clipboard |-> writeText(<<"share", c.id>>, granted),
     toast |-> Some("Share link copied!")]

\* both share actions clicked for the same record
ClickShareActions ==
    /\ page = "none" /\ props = Null
    /\ \E c \in ShareRecords, granted \in BOOLEAN :
           Rendered("ShareActions", [content |-> c, granted |-> granted],
                    Some([header |-> PageCopyShareLink(c, granted),
                          modal |-> ModalCopyShareLink(c, granted)]))

\* ------------------------------------------------------------ specification
\* the state of a page that is not mounted
DetailIdle ==
    /\ routeId = "none"
    /\ content = Null
    /\ queries = <<>>
    /\ loading = FALSE
    /\ refreshing = FALSE
    /\ loads = <<>>
    /\ refreshes = <<>>

DashIdle ==
    /\ analytics = Null
    /\ contents = <<>>
    /\ dashLoading = FALSE
    /\ deleteDialogOpen = FALSE
    /\ contentToDelete = Null
    /\ fetches = <<>>
    /\ deletes = <<>>
    /\ store = {}
    /\ trashClicked = Null

RenderIdle ==
    /\ props = Null
    /\ view = Null

ExportIdle ==
    /\ modalContentId = "none"
    /\ exports = <<>>
    /\ objectURLs = {}
    /\ anchors = {}
    /\ downloads = <<>>
    /\ copied = Null
    /\ copyTimers = {}
    /\ sinceCopy = [a \in CopyActions |-> Null]

AddIdle ==
    /\ inputType = "url"
    /\ url = ""
    /\ title = ""
    /\ contentField = ""
    /\ addLoading = FALSE
    /\ posts = <<>>
    /\ navTimers = {}
    /\ navigations = <<>>

\* the detail page right after its mount effect has called fetchContent
InitDetail ==
    /\ page = "detail"
    /\ routeId \in IDs
    /\ content = Null
    /\ queries = <<>>
    /\ loading = TRUE
    /\ refreshing = FALSE
    /\ loads = <<NewLoad(routeId, 0)>>
    /\ refreshes = <<>>
    /\ toasts = {}
    /\ DashIdle
    /\ RenderIdle
    /\ ExportIdle
    /\ AddIdle

\* the Dashboard right after its mount effect has called fetchData
InitDashboard ==
    /\ page = "dashboard"
    /\ DetailIdle
    /\ RenderIdle
    /\ ExportIdle
    /\ AddIdle
    /\ toasts = {}
    /\ analytics = Null
    /\ contents = <<>>
    /\ dashLoading = TRUE
    /\ deleteDialogOpen = FALSE
    /\ contentToDelete = Null
    /\ fetches = <<NewFetch>>
    /\ deletes = <<>>
    /\ store \in SUBSET IDs
    /\ trashClicked = Null

\* the export dialog of a record, just opened
InitExport ==
    /\ page = "export"
    /\ DetailIdle
    /\ DashIdle
    /\ RenderIdle
    /\ AddIdle
    /\ toasts = {}
    /\ modalContentId \in IDs
    /\ exports = <<>>
    /\ objectURLs = {}
    /\ anchors = {}
    /\ downloads = <<>>
    /\ copied = Null
    /\ copyTimers = {}
    /\ sinceCopy = [a \in CopyActions |-> Null]

\* the Add-Content page, just mounted
InitAdd ==
    /\ page = "add"
    /\ DetailIdle
    /\ DashIdle
    /\ RenderIdle
    /\ ExportIdle
    /\ toasts = {}
    /\ AddIdle

\* one page visit: the page the router mounts
Init == InitDetail \/ InitDashboard \/ InitExport \/ InitAdd

Next ==
    \/ \E k \in 1..Len(loads), ok \in BOOLEAN : ContentResponse(k, ok)
    \/ \E k \in 1..Len(loads), ok \in BOOLEAN : QueriesResponse(k, ok)
    \/ \E id \in IDs : RouteChange(id)
    \/ ClickHeaderRefresh
    \/ ClickFreshnessRefresh
    \/ \E r \in 1..Len(refreshes), ok \in BOOLEAN : RefreshPostResponse(r, ok)
    \/ \E k \in 1..Len(fetches), ok \in BOOLEAN : AnalyticsResponse(k, ok)
    \/ \E k \in 1..Len(fetches), ok \in BOOLEAN : ContentsResponse(k, ok)
    \/ \E id \in IDs : openDeleteDialog(id)
    \/ CancelDelete
    \/ handleDelete
    \/ \E d \in 1..Len(deletes), ok \in BOOLEAN : DeleteResponse(d, ok)
    \/ \E format \in Formats : handleExport(format)
    \/ \E e \in 1..Len(exports), outcome \in Outcomes : ExportResponse(e, outcome)
    \/ copyShareLink
    \/ copySitemapUrl
    \/ CopyTimerFires
    \/ \E v \in InputTypes : setInputType(v)
    \/ \E v \in UrlTexts : setUrl(v)
    \/ \E v \in TitleTexts : setTitle(v)
    \/ \E v \in ContentTexts : setContent(v)
    \/ handleSubmit
    \/ \E i \in 1..Len(posts), ok \in BOOLEAN : PostResponse(i, ok)
    \/ \E i \in 1..Len(posts) : NavTimerFires(i)
    \/ Tick

Spec == Init /\ [][Next]_vars

\* the Section Renderers, called with props drawn from bounded sets
InitRender ==
    /\ page = "none"
    /\ DetailIdle
    /\ DashIdle
    /\ RenderIdle
    /\ ExportIdle
    /\ AddIdle
    /\ toasts = {}

NextRender ==
    \/ RenderTrafficInsights
    \/ RenderSEOScoreCard
    \/ RenderContentFreshness
    \/ RenderTopicClusters
    \/ RenderMetaPreview
    \/ RenderExportModal
    \/ RenderDetailTabs
    \/ DisplayLeaf
    \/ MountRoute
    \/ ClickShareActions

SpecRender == InitRender /\ [][NextRender]_vars

\* ------------------------------------------- requests that never resolve
\* No request has a timeout: a request of a detail load may never resolve.
\* which is "c" (GET /content/{id}) or "q" (GET /queries/{id}).
DetailRequestNeverResolves(k, which) ==
    /\ page = "detail"
    /\ loads[k][which] = "inflight"
    /\ loads' = [loads EXCEPT ![k][which] = "never"]
    /\ UNCHANGED <<page, renderVars, exportVars, addVars, dashVars, toasts, routeId,
                   content, queries, loading, refreshing, refreshes>>

\* ... and so may a request of the dashboard load.
\* which is "a" (GET /analytics) or "c" (GET /content).
DashRequestNeverResolves(k, which) ==
    /\ page = "dashboard"
    /\ fetches[k][which] = "inflight"
    /\ fetches' = [fetches EXCEPT ![k][which] = "never"]
    /\ UNCHANGED <<page, renderVars, exportVars, addVars, detailVars, toasts, analytics,
                   contents, dashLoading, deleteDialogOpen, contentToDelete, deletes,
                   store, trashClicked>>

\* the loading flag of the mounted page
PageLoading == IF page = "detail" THEN loading ELSE dashLoading

\* the page loads alone, with requests that may never resolve
InitLoad == InitDetail \/ InitDashboard

NextLoad ==
    \/ \E k \in 1..Len(loads), ok \in BOOLEAN : ContentResponse(k, ok)
    \/ \E k \in 1..Len(loads), ok \in BOOLEAN : QueriesResponse(k, ok)
    \/ \E id \in IDs : RouteChange(id)
    \/ \E k \in 1..Len(loads), which \in {"c", "q"} : DetailRequestNeverResolves(k, which)
    \/ \E k \in 1..Len(fetches), ok \in BOOLEAN : AnalyticsResponse(k, ok)
    \/ \E k \in 1..Len(fetches), ok \in BOOLEAN : ContentsResponse(k, ok)
    \/ \E k \in 1..Len(fetches), which \in {"a", "c"} : DashRequestNeverResolves(k, which)

\* a request that resolves has its response delivered
LoadFairness ==
    /\ WF_vars(\E k \in 1..Len(loads), ok \in BOOLEAN : ContentResponse(k, ok))
    /\ WF_vars(\E k \in 1..Len(loads), ok \in BOOLEAN : QueriesResponse(k, ok))
    /\ WF_vars(\E k \in 1..Len(fetches), ok \in BOOLEAN : AnalyticsResponse(k, ok))
    /\ WF_vars(\E k \in 1..Len(fetches), ok \in BOOLEAN : ContentsResponse(k, ok))

SpecLoad == InitLoad /\ [][NextLoad]_vars /\ LoadFairness

\* ------------------------------------------------------------------ claims
Loads == 1..Len(loads)
Fetches == 1..Len(fetches)
Refreshes == 1..Len(refreshes)
RequestInFlight(k) == loads[k].c = "inflight" \/ loads[k].q = "inflight"
LoadToast(k) == [msg |-> "Failed to load content", of |-> <<"load", k>>]
RefreshErrorToast(r) == [msg |-> "Failed to refresh content", of |-> <<"refresh", r>>]

\* C1: the detail page is in a non-loading state only when both requests of
\* every load it has started have completed, whatever their outcomes.
C1_NonLoadingOnlyAfterBoth ==
    (page = "detail" /\ ~loading) => \A k \in Loads : ~RequestInFlight(k)

\* C2: once every load has ended and the most recent one has failed, an error
\* notification for it has been shown and the page is in the 'Content not
\* found' state (content absent), also when an earlier load had succeeded.
C2_FailedLoadEndsNotFound ==
    (/\ page = "detail"
     /\ \A k \in Loads : loads[k].done
     /\ ~loading
     /\ loads[Len(loads)].c = "err" \/ loads[Len(loads)].q = "err")
    => (LoadToast(Len(loads)) \in toasts /\ content = Null)

\* C3: while at least one fetchContent invocation has not ended, the detail
\* page renders the loading indicator (loading is true), also when
\* invocations overlap.
C3_PendingLoadShowsSpinner ==
    (page = "detail" /\ \E k \in Loads : ~loads[k].done) => loading

\* C4: content and queries (and analytics and contents on the dashboard) are
\* either both still at their initial value or were both written by one and
\* the same load, and both requests of that load succeeded; a load of which
\* only one request succeeded has written neither.
C4_NoPartialResult ==
    /\ (content = Null) <=> (queries = <<>>)
    /\ content # Null =>
          /\ queries[1].load = content[1].load
          /\ queries[1].id = content[1].id
          /\ content[1].load \in Loads
          /\ loads[content[1].load].c = "ok"
          /\ loads[content[1].load].q = "ok"
          /\ loads[content[1].load].id = content[1].id
    /\ (analytics = Null) <=> (contents = <<>>)
    /\ analytics # Null =>
          /\ contents[1].load = analytics[1].load
          /\ analytics[1].load \in Fetches
          /\ fetches[analytics[1].load].a = "ok"
          /\ fetches[analytics[1].load].c = "ok"

\* C4 witness: the page shows a record although an earlier load had one
\* request succeed and the other fail.
C4_Witness ==
    /\ content # Null
    /\ \E k \in Loads : /\ loads[k].c = "ok" /\ loads[k].q = "err"
                        /\ content[1].load # k

\* C5 (state part): a fetchContent invocation started by a refresh exists only
\* once that refresh's POST has succeeded, and then exactly one.
C5_FetchOnlyAfterWrite ==
    /\ \A k \in Loads : loads[k].ref # 0 =>
          (loads[k].ref \in Refreshes /\ refreshes[loads[k].ref].post = "ok")
    /\ \A r \in Refreshes :
          Cardinality({k \in Loads : loads[k].ref = r})
              = (IF refreshes[r].post = "ok" THEN 1 ELSE 0)

\* C5 (step part): the click issues no fetch; the step in which a refresh POST
\* fails issues no fetch, shows the error notification, leaves content and
\* queries unchanged and sets refreshing to false.
C5_WriteFailureStep ==
    /\ Len(refreshes') > Len(refreshes) => loads' = loads
    /\ \A r \in Refreshes :
          (refreshes[r].post = "inflight" /\ refreshes'[r].post = "err") =>
              /\ loads' = loads
              /\ RefreshErrorToast(r) \in toasts'
              /\ RefreshErrorToast(r) \notin toasts
              /\ content' = content
              /\ queries' = queries
              /\ refreshing' = FALSE

\* C5: the refresh action issues POST /content/{id}/refresh first and re-runs
\* the dual fetch only after the write has succeeded; if the write fails, no
\* fetch is issued, an error notification is shown, content and queries are
\* unchanged and refreshing returns to false.
C5_RefreshWriteThenFetch == [](C5_FetchOnlyAfterWrite) /\ [][C5_WriteFailureStep]_vars

\* C5 witness: a refresh whose POST failed, with the record still shown.
C5_Witness ==
    /\ content # Null
    /\ \E r \in Refreshes : refreshes[r].post = "err" /\ RefreshErrorToast(r) \in toasts
    /\ ~refreshing

Called(name) == props # Null /\ props[1].renderer = name

\* C6: every optional analysis object of a record is rendered by the detail
\* page whenever it is present, whatever other analyses are present.
C6_EachAnalysisRendered ==
    Called("DetailTabs") =>
        \A a \in Analyses : props[1].p.content[a] # Null => a \in view[1].sections

\* the root slice of each Section Renderer
RootSlice ==
    IF Called("TrafficInsights") THEN props[1].p.trafficPrediction
    ELSE IF Called("SEOScoreCard") THEN props[1].p.seoScore
    ELSE IF Called("ContentFreshness") THEN props[1].p.freshness
    ELSE IF Called("TopicClusters") THEN props[1].p.topicClusters
    ELSE IF Called("MetaPreview") THEN props[1].p.metaPreview
    ELSE props[1].p.contentId

SectionRenderers == {"TrafficInsights", "SEOScoreCard", "ContentFreshness",
                     "TopicClusters", "MetaPreview", "ExportModal"}

\* a list-shaped sub-slice is shown exactly when it is non-empty
ListShown(list, section) == NonEmpty(list) <=> section \in view[1].sections

\* C7: a Section Renderer called with an absent root slice renders nothing;
\* called with a present root slice it renders something (ExportModal: when
\* it is open), and an empty list-shaped sub-slice adds nothing to it.
C7_AbsenceInAbsenceOut ==
    (props # Null /\ props[1].renderer \in SectionRenderers) =>
        /\ RootSlice = Null => view = Null
        /\ (RootSlice # Null /\ (Called("ExportModal") => props[1].p.isOpen))
               => view # Null
        /\ (Called("TrafficInsights") /\ view # Null) =>
               ListShown(props[1].p.trafficPrediction[1].recommendations, "recommendations")
        /\ (Called("SEOScoreCard") /\ view # Null) =>
               ListShown(props[1].p.seoScore[1].recommendations, "recommendations")
        /\ (Called("TopicClusters") /\ view # Null) =>
               /\ ListShown(props[1].p.topicClusters[1].pillar_keywords, "pillar_keywords")
               /\ ListShown(props[1].p.topicClusters[1].cluster_topics, "cluster_topics")

\* C8: a missing numeric leaf of a present slice is displayed as 0 (or 0%).
C8_MissingLeafShowsZero ==
    (Called("Leaf") /\ props[1].p.value = Null) => view[1].text \in {"0", "0%"}

\* the colour a class string of the score-band tables stands for
ColorOf(class) ==
    IF class \in {"text-green-600", "bg-green-600", "from-green-500 to-green-600",
                  "text-green-600 bg-green-100"} THEN "green"
    ELSE IF class \in {"text-blue-600", "bg-blue-600", "from-blue-500 to-blue-600",
                       "text-blue-600 bg-blue-100"} THEN "blue"
    ELSE IF class \in {"text-orange-600", "bg-orange-600", "from-orange-500 to-orange-600",
                       "text-orange-600 bg-orange-100"} THEN "orange"
    ELSE IF class \in {"text-red-600", "bg-red-600", "from-red-500 to-red-600",
                       "text-red-600 bg-red-100"} THEN "red"
    ELSE "other"

\* the band table with inclusive lower bounds g > b > o
Band(score, g, b, o) ==
    IF score \in g..MaxScore THEN "green"
    ELSE IF score \in b..(g - 1) THEN "blue"
    ELSE IF score \in o..(b - 1) THEN "orange"
    ELSE "red"

\* C9: over the scores 0..100 the SEOScoreCard overall-score colour is green
\* from 85, blue from 70, orange from 50 and red below, and the
\* ContentFreshness gradient is green from 90, blue from 75, orange from 60
\* and red below; each boundary value belongs to the higher band.
C9_ScoreBands ==
    /\ (Called("SEOScoreCard") /\ props[1].p.seoScore # Null) =>
          /\ view # Null
          /\ ColorOf(view[1].scoreColor) = Band(props[1].p.seoScore[1].overall_score, 85, 70, 50)
          /\ ColorOf(view[1].barColor) = Band(props[1].p.seoScore[1].overall_score, 85, 70, 50)
    /\ (Called("ContentFreshness") /\ props[1].p.freshness # Null) =>
          /\ view # Null
          /\ ColorOf(view[1].gradient) = Band(props[1].p.freshness[1].freshness_score, 90, 75, 60)

\* C9 witness: SEOScoreCard rendered for the boundary score 85.
C9_Witness ==
    /\ Called("SEOScoreCard")
    /\ props[1].p.seoScore # Null
    /\ props[1].p.seoScore[1].overall_score = 85
    /\ view # Null

\* C10: the tier pill of TrafficInsights is green for 'High', orange for
\* 'Medium' and blue for every other tier, a missing one included.
C10_TierColor ==
    (Called("TrafficInsights") /\ props[1].p.trafficPrediction # Null) =>
        LET tier == props[1].p.trafficPrediction[1].traffic_tier IN
        /\ view # Null
        /\ tier = Some("High") => ColorOf(view[1].tierColor) = "green"
        /\ tier = Some("Medium") => ColorOf(view[1].tierColor) = "orange"
        /\ tier \notin {Some("High"), Some("Medium")} => ColorOf(view[1].tierColor) = "blue"

\* C10 witness: TrafficInsights rendered for a record without traffic_tier.
C10_Witness ==
    /\ Called("TrafficInsights")
    /\ props[1].p.trafficPrediction # Null
    /\ props[1].p.trafficPrediction[1].traffic_tier = Null
    /\ view # Null

\* ------------------------------------------------------ claims: ExportModal
Exports == 1..Len(exports)
DownloadsOf(e) == {i \in 1..Len(downloads) : downloads[i].export = e}
ExportToasts(e) == {t \in toasts : t.of[1] = "export" /\ t.of[2] = e}

\* C11: an export of any format requests /content/{id}/export/{format}; when
\* the backend delivered it, exactly one download named content_{id}.{format}
\* is triggered through an anchor that is in the document, while the object
\* URL is still live; once the handler has finished no object URL is live
\* and no anchor is left in the document.
C11_ExportDownloadsAndReleases ==
    page = "export" =>
        /\ objectURLs = {}
        /\ anchors = {}
        /\ \A e \in Exports :
              /\ exports[e].format \in Formats
              /\ exports[e].request = <<"content", modalContentId, "export", exports[e].format>>
              /\ exports[e].status = "ok" => Cardinality(DownloadsOf(e)) = 1
              /\ \A i \in DownloadsOf(e) :
                    /\ downloads[i].name = <<"content_", modalContentId, ".", exports[e].format>>
                    /\ downloads[i].live
                    /\ downloads[i].attached

\* C11 witness: a delivered HTML export whose download has been triggered.
C11_Witness ==
    /\ page = "export"
    /\ \E e \in Exports :
          /\ exports[e].format = "html"
          /\ exports[e].status = "ok"
          /\ DownloadsOf(e) # {}

\* C12: every export attempt that has ended has exactly one notification; it
\* is the success notification only if the backend delivered the export, and
\* after a transport error or a backend error response it is the failure
\* notification and no download was triggered.
C12_NotificationMatchesOutcome ==
    page = "export" =>
        \A e \in Exports :
            exports[e].status # "inflight" =>
                /\ Cardinality(ExportToasts(e)) = 1
                /\ exports[e].status = "ok" =>
                      \A t \in ExportToasts(e) : t.msg # "Failed to export"
                /\ exports[e].status # "ok" =>
                      /\ \A t \in ExportToasts(e) : t.msg = "Failed to export"
                      /\ DownloadsOf(e) = {}

\* C13: whenever no timer is due, each copy action's check mark is shown
\* exactly while less than 2 seconds have passed since that action's own
\* latest click.
C13_IndependentAcknowledgements ==
    (page = "export" /\ ~TimerDue) =>
        \A a \in CopyActions :
            CopiedShown(a) <=> (sinceCopy[a] # Null /\ sinceCopy[a][1] < CopiedDelay)

\* -------------------------------------------------------- claims: Dashboard
Deletes == 1..Len(deletes)
DeleteIssued == Len(deletes') > Len(deletes)
DeleteSettles(d, outcome) == deletes[d].status = "inflight" /\ deletes'[d].status = outcome
DialogDismissed == deleteDialogOpen /\ ~deleteDialogOpen' /\ deletes' = deletes

\* C14 (step): a DELETE is issued only by a click in the open dialog, for the
\* id of the card whose trash button opened it; dismissing the dialog issues
\* no request and changes neither the list nor the backend.
C14_Step ==
    /\ DeleteIssued =>
          /\ deleteDialogOpen
          /\ Len(deletes') = Len(deletes) + 1
          /\ trashClicked = Some(deletes'[Len(deletes')].id)
    /\ DialogDismissed => (contents' = contents /\ store' = store)

\* C14: no DELETE request is issued for an id unless the confirmation dialog
\* was opened for that id and then confirmed; Cancel issues no request and
\* leaves the content list unchanged.
C14_DeleteOnlyAfterConfirm == [][C14_Step]_vars

\* C14 witness: the dialog was opened and cancelled for one card, then opened
\* and confirmed for the other.
C14_Witness ==
    /\ page = "dashboard"
    /\ Len(deletes) = 1
    /\ deletes[1].status = "inflight"
    /\ deletes[1].id = "b"
    /\ trashClicked = Some("b")
    /\ ~deleteDialogOpen
    /\ Cards = {"a", "b"}

\* C15 (step): the confirm click issues one DELETE for the selected id; its
\* success starts one fetchData, closes the dialog and clears the selection;
\* its failure starts no fetch, keeps contents and shows the error toast;
\* nothing else starts a fetch.
C15_Step ==
    /\ DeleteIssued =>
          deletes' = Append(deletes, [id |-> contentToDelete[1], status |-> "inflight"])
    /\ \A d \in Deletes :
          /\ DeleteSettles(d, "ok") =>
                /\ fetches' = Append(fetches, [a |-> "inflight", c |-> "inflight", done |-> FALSE])
                /\ ~deleteDialogOpen'
                /\ contentToDelete' = Null
          /\ DeleteSettles(d, "err") =>
                /\ fetches' = fetches
                /\ contents' = contents
                /\ [msg |-> "Failed to delete content", of |-> <<"delete", d>>]
                       \in toasts' \ toasts
    /\ Len(fetches') > Len(fetches) => \E d \in Deletes : DeleteSettles(d, "ok")

\* C15: clicking Delete in the dialog issues exactly one DELETE for the
\* selected id (an open dialog always has a selection); success is followed
\* by exactly one full re-fetch with the dialog closed and the selection
\* cleared; failure by no re-fetch, unchanged contents and an error toast.
C15_ConfirmDeletesOnceThenRefetches ==
    /\ []((page = "dashboard" /\ deleteDialogOpen) => contentToDelete # Null)
    /\ [][C15_Step]_vars

\* C15 witness: one DELETE has failed, a second one has succeeded and the one
\* re-fetch it started is the only one besides the initial load.
C15_Witness ==
    /\ page = "dashboard"
    /\ Len(deletes) = 2
    /\ deletes[1].status = "err"
    /\ deletes[2].status = "ok"
    /\ Len(fetches) = 2
    /\ ~deleteDialogOpen
    /\ contentToDelete = Null

\* C16 (step): contents changes only in a step in which a fetchData whose two
\* requests both succeeded completes.
C16_Step ==
    contents' # contents =>
        \E k \in Fetches :
            /\ ~fetches[k].done
            /\ fetches'[k].done
            /\ fetches'[k].a = "ok"
            /\ fetches'[k].c = "ok"

\* C16: there is no optimistic local removal: contents changes only when a
\* full fetch completes successfully; opening, cancelling, confirming and
\* the DELETE response all leave it unchanged.
C16_ContentsOnlyFromFullFetch == [][C16_Step]_vars

\* C16 witness: a DELETE has succeeded on the backend and the list still
\* shows the deleted card, its re-fetch being in flight.
C16_Witness ==
    /\ page = "dashboard"
    /\ \E d \in Deletes :
          /\ deletes[d].status = "ok"
          /\ deletes[d].id \in Cards
          /\ deletes[d].id \notin store
    /\ dashLoading


\* ------------------------------------------------------- claims: AddContent
Posts == 1..Len(posts)
PostIssued == Len(posts') > Len(posts)
NavigationsOf(i) == {n \in 1..Len(navigations) : navigations[n].post = i}
ValidationToasts == {t \in toasts : t.of[1] = "validation"}

\* the required fields of the selected mode are not all filled in
Invalid ==
    \/ inputType = "url" /\ url = ""
    \/ inputType = "manual" /\ (title = "" \/ contentField = "")

\* C17 (step): a submit of an invalid form issues no POST, shows a validation
\* error and leaves loading false and the inputs as they were; a submit of a
\* form whose selected mode is filled in shows no validation error and posts.
C17_Step ==
    /\ (handleSubmit /\ Invalid) =>
          /\ posts' = posts
          /\ ~addLoading /\ ~addLoading'
          /\ formVars' = formVars
          /\ \E t \in toasts' : t.of = <<"validation", inputType>>
    /\ (handleSubmit /\ ~Invalid) =>
          /\ toasts' = toasts
          /\ Len(posts') = Len(posts) + 1
    /\ PostIssued => ~Invalid

\* C17: submitting in url mode with an empty url, or in manual mode with an
\* empty title or content, issues no POST, shows a validation error and
\* leaves the page Idle; only the fields of the selected mode count.
C17_ValidationBlocksSubmit == [][C17_Step]_vars

\* C17 witness: manual mode with the content empty was submitted while a url
\* typed earlier is still in the url field: the error is shown, nothing was
\* posted.
C17_Witness ==
    /\ page = "add"
    /\ inputType = "manual" /\ url = "u" /\ title = "t" /\ contentField = ""
    /\ \E t \in toasts : t.msg = "Please fill in all fields"
    /\ posts = <<>>
    /\ ~addLoading

\* C18 (step): the payload posted is built from the selected mode's fields
\* as they are at the submit.
C18_Step ==
    PostIssued =>
        LET payload == posts'[Len(posts')].payload IN
        /\ inputType = "url" =>
              (DOMAIN payload = {"input_type", "url"} /\ payload.url = url)
        /\ inputType = "manual" =>
              /\ DOMAIN payload = {"input_type", "title", "content"}
              /\ payload.title = title
              /\ payload.content = contentField
        /\ payload.input_type = inputType

\* C18: every POST carries one of two payload shapes chosen by the mode:
\* {input_type:'url', url} without title/content, or {input_type:'manual',
\* title, content} without url, whatever the other mode's fields hold.
C18_PayloadShape ==
    /\ [](\A i \in Posts :
            \/ /\ posts[i].payload.input_type = "url"
               /\ DOMAIN posts[i].payload = {"input_type", "url"}
            \/ /\ posts[i].payload.input_type = "manual"
               /\ DOMAIN posts[i].payload = {"input_type", "title", "content"})
    /\ [][C18_Step]_vars

\* C18 witness: a url-mode POST made while title and content were filled in,
\* and a manual-mode POST made while the url field was filled in.
C18_Witness ==
    /\ page = "add"
    /\ Len(posts) = 2
    /\ posts[1].payload.input_type = "url"
    /\ posts[2].payload.input_type = "manual"
    /\ url = "u" /\ title = "t" /\ contentField = "c"

\* C19: the submit control is disabled while a POST is in flight, and after a
\* successful POST it stays disabled until the page has navigated away, so
\* that no submit is possible between a success and its navigation.
C19_SubmitStateMachine ==
    page = "add" =>
        /\ (\E i \in Posts : posts[i].status = "inflight") => ~SubmitEnabled
        /\ (\E i \in Posts : posts[i].status = "ok") => ~SubmitEnabled

\* C20: a POST that succeeded with {id} has its success notification and,
\* once the delay has passed, exactly one navigation, to /content/{id}, and
\* none before; a POST that failed or is in flight has no navigation.
C20_NavigateOnceAfterDelay ==
    page = "add" =>
        \A i \in Posts :
            /\ posts[i].status # "ok" => NavigationsOf(i) = {}
            /\ posts[i].status = "ok" =>
                  /\ \E t \in toasts : t.of = <<"post", i>> /\ t.msg # "Failed to add content"
                  /\ \A n \in NavigationsOf(i) :
                        navigations[n].to = <<"content", posts[i].id[1]>>
                  /\ posts[i].age[1] < NavigateDelay => NavigationsOf(i) = {}
                  /\ (posts[i].age[1] = NavigateDelay /\ ~TimerDue) =>
                        Cardinality(NavigationsOf(i)) = 1
                  /\ Cardinality(NavigationsOf(i)) <= 1

\* C20 witness: the first POST failed, the second succeeded with id 'b' and
\* the page has navigated to /content/b.
C20_Witness ==
    /\ page = "add"
    /\ Len(posts) = 2
    /\ posts[1].status = "err"
    /\ posts[2].status = "ok"
    /\ navigations = <<[to |-> <<"content", "b">>, post |-> 2]>>


\* the toasts of the i-th create POST
PostToasts(i) == {t \in toasts : t.of = <<"post", i>>}

\* C21: a failed create POST has one error notification: the backend's detail
\* message when the error carries one, and 'Failed to add content' when it
\* carries none (no response at all included).
C21_FailureMessage ==
    page = "add" =>
        \A i \in Posts :
            posts[i].status = "err" =>
                /\ Cardinality(PostToasts(i)) = 1
                /\ \A t \in PostToasts(i) :
                      /\ posts[i].detail \in {Null, Some("")} => t.msg = "Failed to add content"
                      /\ posts[i].detail \notin {Null, Some("")} => t.msg = posts[i].detail[1]

\* C21 witness: one POST failed with the detail 'Invalid URL', another with
\* no detail, and both messages are shown.
C21_Witness ==
    /\ page = "add"
    /\ Len(posts) = 2
    /\ posts[1].status = "err" /\ posts[1].detail = Some("Invalid URL")
    /\ posts[2].status = "err" /\ posts[2].detail = Null
    /\ \E t \in PostToasts(1) : t.msg = "Invalid URL"
    /\ \E t \in PostToasts(2) : t.msg = "Failed to add content"


\* C22: for a location /share/{shareId} the detail page is mounted and the
\* load it issues is keyed by the shareId of the route.
C22_ShareRouteKeyedByShareId ==
    (Called("Route") /\ props[1].p.path # <<>> /\ props[1].p.path[1] = "share") =>
        /\ view[1].element = "EnhancedContentDetails"
        /\ view[1].requests = {<<"content", props[1].p.path[2]>>,
                               <<"queries", props[1].p.path[2]>>}

\* C29: for a record with a share identifier x, the header Share button and
\* the modal's Copy Share Link both put /share/{x} on the clipboard, and a
\* click that shows a success notification has copied a URL.
C29_ShareActionsAgree ==
    (Called("ShareActions") /\ props[1].p.content.share_id # Null) =>
        /\ props[1].p.granted =>
              /\ view[1].header.clipboard = Some(<<"share", props[1].p.content.share_id[1]>>)
              /\ view[1].modal.clipboard = view[1].header.clipboard
        /\ view[1].header.toast # Null => view[1].header.clipboard # Null
        /\ view[1].modal.toast # Null => view[1].modal.clipboard # Null


\* C23: every request that has failed, of every kind, has its error
\* notification: detail load, dashboard load, refresh, delete, create and
\* export (transport error or backend error response alike).
C23_EveryFailureNotified ==
    /\ \A k \in Loads :
          (loads[k].c = "err" \/ loads[k].q = "err") => LoadToast(k) \in toasts
    /\ \A k \in Fetches :
          (fetches[k].a = "err" \/ fetches[k].c = "err") =>
              [msg |-> "Failed to load data", of |-> <<"fetch", k>>] \in toasts
    /\ \A r \in Refreshes :
          refreshes[r].post = "err" => RefreshErrorToast(r) \in toasts
    /\ \A d \in Deletes :
          deletes[d].status = "err" =>
              [msg |-> "Failed to delete content", of |-> <<"delete", d>>] \in toasts
    /\ \A i \in Posts :
          posts[i].status = "err" => PostToasts(i) # {}
    /\ \A e \in Exports :
          exports[e].status \in {"http_error", "network_error"} =>
              [msg |-> "Failed to export", of |-> <<"export", e>>] \in toasts


\* the dual fetches issued for refresh call r
LoadsOfRefresh(r) == {k \in Loads : loads[k].ref = r}

\* C24 (step): when a refresh call whose write succeeded completes, the dual
\* fetch issued after its write completes with it, and if that fetch
\* returned a record the view model is that record, of the id refreshed.
C24_Step ==
    \A r \in Refreshes :
        (refreshes[r].post = "ok" /\ ~refreshes[r].done /\ refreshes'[r].done) =>
            \E k \in LoadsOfRefresh(r) :
                /\ ~loads[k].done /\ loads'[k].done
                /\ (loads'[k].c = "ok" /\ loads'[k].q = "ok") =>
                      /\ content' # Null /\ queries' # <<>>
                      /\ content'[1].load = k /\ queries'[1].load = k
                      /\ content'[1].id = refreshes[r].id

\* C24: every refresh call issues one write, followed by exactly one dual
\* fetch when the write succeeded and by none otherwise; the page keeps a
\* single record, and when a call completes the view model is the record
\* returned by the fetch issued after that call's write.
C24_RefreshTwice ==
    /\ [](\A r \in Refreshes :
            Cardinality(LoadsOfRefresh(r)) = IF refreshes[r].post = "ok" THEN 1 ELSE 0)
    /\ [][C24_Step]_vars

\* C24 witness: two refresh calls have completed, each with its own dual
\* fetch, and the view model is the record of the second call's fetch.
C24_Witness ==
    /\ page = "detail"
    /\ Len(refreshes) = 2
    /\ \A r \in Refreshes : refreshes[r].done /\ refreshes[r].post = "ok"
    /\ Len(loads) = 3
    /\ loads[2].ref = 1 /\ loads[3].ref = 2
    /\ \A k \in Loads : loads[k].done /\ loads[k].c = "ok" /\ loads[k].q = "ok"
    /\ content # Null /\ content[1].load = 3 /\ content[1].id = routeId
    /\ ~refreshing /\ ~loading


\* C26: once every load has settled, all of them successfully, the content
\* and queries shown belong to the current route id, whatever the order in
\* which the responses of overlapping loads arrived.
C26_SettledViewIsCurrentRoute ==
    (/\ page = "detail"
     /\ \A k \in Loads : loads[k].done /\ loads[k].c = "ok" /\ loads[k].q = "ok")
    => (/\ content # Null /\ content[1].id = routeId
        /\ queries # <<>> /\ queries[1].id = routeId)

\* a refresh call is in progress from the click to the end of its re-fetch
RefreshInProgress(r) == ~refreshes[r].done

\* C27: at most one refresh write is in flight at any time, and refreshing
\* is true exactly while a refresh call (write plus re-fetch) is in
\* progress, whichever of the two buttons started it.
C27_SingleRefresh ==
    page = "detail" =>
        /\ Cardinality({r \in Refreshes : refreshes[r].post = "inflight"}) <= 1
        /\ refreshing <=> \E r \in Refreshes : RefreshInProgress(r)

\* C28 (step): the success of a DELETE for one item, arriving while the
\* dialog is open for a different item, leaves the dialog open and the
\* selection as it is.
C28_Step ==
    \A d \in Deletes :
        (/\ DeleteSettles(d, "ok")
         /\ deleteDialogOpen
         /\ contentToDelete # Some(deletes[d].id))
        => (deleteDialogOpen' /\ contentToDelete' = contentToDelete)

\* C28: the completion of a DELETE for item A never closes the dialog or
\* clears the selection opened meanwhile for a different item B, and while
\* the dialog is open contentToDelete is the id it was last opened for.
C28_DeleteCompletionKeepsDialog ==
    /\ []((page = "dashboard" /\ deleteDialogOpen) => contentToDelete = trashClicked)
    /\ [][C28_Step]_vars


\* a request has settled: it resolved, with success or with an error
Settled(status) == status \in {"ok", "err"}
AllRequestsSettled ==
    /\ \A k \in Loads : Settled(loads[k].c) /\ Settled(loads[k].q)
    /\ \A k \in Fetches : Settled(fetches[k].a) /\ Settled(fetches[k].c)
SomeRequestNeverResolves ==
    \/ \E k \in Loads : loads[k].c = "never" \/ loads[k].q = "never"
    \/ \E k \in Fetches : fetches[k].a = "never" \/ fetches[k].c = "never"

\* C25: if the requests of the page's loads all settle the page ends up
\* non-loading, and if a request of a load never resolves the page is in
\* the loading state for ever.
C25_LoadingIffUnresolved ==
    /\ (<>[]AllRequestsSettled) => (<>[]~PageLoading)
    /\ [](SomeRequestNeverResolves => PageLoading)


====
